---- MODULE Spec2Model ----
(***************************************************************************)
(* arborium: the span rendering engine (arborium-highlight/src/render.rs)  *)
(* and the plugin session runtime (arborium-plugin-runtime/src/lib.rs).    *)
(*                                                                         *)
(* Texts are sequences of one-character strings, byte offsets are indices  *)
(* into them, and rendered output is a sequence of tokens [kind, val]:     *)
(* "open"/"close" carry a tag, "style" a highlight index, "reset" nothing, *)
(* and "text" one emitted character (escaped in HTML output).              *)
(***************************************************************************)
EXTENDS Integers, Sequences, FiniteSets, TLC

VARIABLES
    source,      \* render.rs: the `source` argument
    spans,       \* render.rs: the `spans` argument
    rpc,         \* position of the rendering call
    deduped,     \* spans_to_html: the `deduped` HashMap
    coalesced,   \* result of normalize_and_coalesce
    recoalesced, \* normalize_and_coalesce applied to its own output
    html,        \* result of spans_to_html
    htmlStack,   \* spans_to_html: `stack` after the last event
    ansiDeduped, \* spans_to_ansi: the `deduped` HashMap
    ansi,        \* result of spans_to_ansi
    sessions,        \* PluginRuntime.sessions: handle -> Session
    next_session_id, \* PluginRuntime.next_session_id
    ppc,             \* position of the parse call that holds `&mut self`
    parse_id,        \* parse: `session_id`
    next_match,      \* parse: index of the next match `matches.next()` yields
    check_count,     \* parse: `check_count`
    parse_spans,     \* parse: `spans`
    parse_injections, \* parse: `injections`
    ret,             \* what the last call returned
    requested,       \* history: the live sessions on which cancel was called
                     \* with no set_text or apply_edit since
    edited,          \* history: the live sessions whose text and tree come from
                     \* apply_edit on a tree, with whether the edit described
                     \* the change of the text
    config,          \* PluginRuntime.config: the HighlightConfig
    grammar          \* the CompiledGrammar built from the same query texts

rvars == <<source, spans, rpc, deduped, coalesced, recoalesced, html, htmlStack,
           ansiDeduped, ansi>>

(* the HighlightConfig and the CompiledGrammar are immutable once built *)
cvars == <<config, grammar>>

svars == <<sessions, next_session_id, ppc, parse_id, next_match, check_count,
           parse_spans, parse_injections, ret, requested, edited, cvars>>

vars == <<rvars, svars>>

----------------------------------------------------------------------------
(* Bounds of the model *)

MaxLen == 3
MaxSpans == 2
MaxCoalesceSpans == 3
MaxPos == 1

NoTag == "none"
NoIndex == -1

(* Captures and the pattern that produces each (the query declares them in  *)
(* this order).                                                             *)
Captures == {"function", "keyword", "spell"}

PatternOf(capture) ==
    CASE capture = "function" -> 0
      [] capture = "keyword" -> 1
      [] OTHER -> 2

----------------------------------------------------------------------------
(* arborium_theme::highlights *)

capture_to_slot(capture) ==
    CASE capture = "keyword" -> "Keyword"
      [] capture = "keyword.function" -> "Keyword"
      [] capture = "function" -> "Function"
      [] capture = "comment" -> "Comment"
      [] OTHER -> "None"

SlotTag(slot) ==
    CASE slot = "Keyword" -> "k"
      [] slot = "Function" -> "f"
      [] slot = "Comment" -> "c"
      [] OTHER -> NoTag

tag_for_capture(capture) == SlotTag(capture_to_slot(capture))

slot_to_highlight_index(slot) ==
    CASE slot = "Keyword" -> 0
      [] slot = "Function" -> 1
      [] slot = "Comment" -> 2
      [] OTHER -> NoIndex

----------------------------------------------------------------------------
(* Sequences *)

Max(a, b) == IF a >= b THEN a ELSE b

Tok(kind, val) == [kind |-> kind, val |-> val]

html_escape_char(c) ==
    CASE c = "<" -> "&lt;"
      [] c = ">" -> "&gt;"
      [] c = "&" -> "&amp;"
      [] c = "\"" -> "&quot;"
      [] c = "'" -> "&#39;"
      [] OTHER -> c

html_escape(text) == [i \in 1..Len(text) |-> Tok("text", html_escape_char(text[i]))]

RawText(text) == [i \in 1..Len(text) |-> Tok("text", text[i])]

(* source[from..to] with 0-based byte offsets, `to` exclusive *)
Slice(text, from, to) == SubSeq(text, from + 1, to)

(* a.start.cmp(&b.start).then_with(|| b.end.cmp(&a.end)) == Less *)
LessStartAscEndDesc(a, b) ==
    \/ a.start < b.start
    \/ a.start = b.start /\ b.end < a.end

(* sort_by_key(|s| (s.start, s.end)) *)
LessStartEnd(a, b) ==
    \/ a.start < b.start
    \/ a.start = b.start /\ a.end < b.end

(* a.0.cmp(&b.0).then_with(|| a.1.cmp(&b.1)), false < true *)
LessEvent(a, b) ==
    \/ a.pos < b.pos
    \/ a.pos = b.pos /\ ~a.is_start /\ b.is_start

Less(mode, a, b) ==
    CASE mode = "start_asc_end_desc" -> LessStartAscEndDesc(a, b)
      [] mode = "start_end" -> LessStartEnd(a, b)
      [] OTHER -> LessEvent(a, b)

(* Vec::sort_by / sort_by_key are stable: an element comes after the        *)
(* elements that are less and after the equal ones that precede it.         *)
SortRank(mode, s, i) ==
    1 + Cardinality({j \in 1..Len(s) :
            \/ Less(mode, s[j], s[i])
            \/ j < i /\ ~Less(mode, s[i], s[j])})

StableSort(mode, s) ==
    [k \in 1..Len(s) |-> s[CHOOSE i \in 1..Len(s) : SortRank(mode, s, i) = k]]

(* Every order a HashMap may yield the values of map m in *)
RECURSIVE KeyOrders(_)
KeyOrders(keys) ==
    IF keys = {} THEN {<<>>}
    ELSE UNION {{<<k>> \o rest : rest \in KeyOrders(keys \ {k})} : k \in keys}

ValueOrders(m) ==
    {[i \in 1..Len(order) |-> m[order[i]]] : order \in KeyOrders(DOMAIN m)}

----------------------------------------------------------------------------
(* render.rs *)

make_html_tags(short_tag) == <<Tok("open", short_tag), Tok("close", short_tag)>>

Normalized(span) ==
    [start |-> span.start, end |-> span.end, tag |-> tag_for_capture(span.capture)]

(* lines 90-108: sort by (start, end), then merge each span into the last   *)
(* coalesced one when the tags agree and it starts at or before its end.    *)
(* `<` for `<=` in line 99: touching spans are not merged *)
RECURSIVE CoalesceFrom_Strict(_, _, _)
CoalesceFrom_Strict(normalized, i, acc) ==
    IF i > Len(normalized) THEN acc
    ELSE LET span == normalized[i]
             n == Len(acc)
         IN IF n > 0 /\ span.tag = acc[n].tag /\ span.start < acc[n].end
            THEN CoalesceFrom_Strict(normalized, i + 1,
                     [acc EXCEPT ![n].end = Max(acc[n].end, span.end)])
            ELSE CoalesceFrom_Strict(normalized, i + 1, Append(acc, span))

(* `span.start <= last.end + 1` for line 99: spans one position apart are   *)
(* merged too                                                               *)
RECURSIVE CoalesceFrom_Gap(_, _, _)
CoalesceFrom_Gap(normalized, i, acc) ==
    IF i > Len(normalized) THEN acc
    ELSE LET span == normalized[i]
             n == Len(acc)
         IN IF n > 0 /\ span.tag = acc[n].tag /\ span.start <= acc[n].end + 1
            THEN CoalesceFrom_Gap(normalized, i + 1,
                     [acc EXCEPT ![n].end = Max(acc[n].end, span.end)])
            ELSE CoalesceFrom_Gap(normalized, i + 1, Append(acc, span))

RECURSIVE CoalesceFrom(_, _, _)
CoalesceFrom(normalized, i, acc) ==
    IF i > Len(normalized) THEN acc
    ELSE LET span == normalized[i]
             n == Len(acc)
         IN IF n > 0 /\ span.tag = acc[n].tag /\ span.start <= acc[n].end
            THEN CoalesceFrom(normalized, i + 1,
                     [acc EXCEPT ![n].end = Max(acc[n].end, span.end)])
            ELSE CoalesceFrom(normalized, i + 1, Append(acc, span))

(* the sort of line 91 left out *)
SortAndCoalesce_Unsorted(normalized) == CoalesceFrom(normalized, 1, <<>>)

SortAndCoalesce(normalized) ==
    CoalesceFrom(StableSort("start_end", normalized), 1, <<>>)

(* the merge loop of lines 96-106 left out *)
normalize_and_coalesce_NoMerge(input) ==
    LET resolved == [i \in 1..Len(input) |-> Normalized(input[i])]
    IN StableSort("start_end", SelectSeq(resolved, LAMBDA s : s.tag # NoTag))

(* the filter of lines 77-83 left out: unresolved captures are kept *)
normalize_and_coalesce_KeepAll(input) ==
    SortAndCoalesce([i \in 1..Len(input) |-> Normalized(input[i])])

(* the sort of line 91 left out: the spans are coalesced in the order the   *)
(* map yielded them                                                         *)
normalize_and_coalesce_MapOrder(input) ==
    LET resolved == [i \in 1..Len(input) |-> Normalized(input[i])]
        normalized == SelectSeq(resolved, LAMBDA s : s.tag # NoTag)
    IN IF Len(input) = 0 \/ Len(normalized) = 0 THEN <<>>
       ELSE CoalesceFrom(normalized, 1, <<>>)

normalize_and_coalesce(input) ==
    LET resolved == [i \in 1..Len(input) |-> Normalized(input[i])]
        normalized == SelectSeq(resolved, LAMBDA s : s.tag # NoTag)
    IN IF Len(input) = 0 \/ Len(normalized) = 0 THEN <<>>
       ELSE SortAndCoalesce(normalized)

(* lines 134/137: tag_for_capture(..).is_some(); lines 271/275:             *)
(* slot_to_highlight_index(capture_to_slot(..)).is_some()                   *)
HasStyling(backend, span) ==
    IF backend = "html"
    THEN tag_for_capture(span.capture) # NoTag
    ELSE slot_to_highlight_index(capture_to_slot(span.capture)) # NoIndex

(* lines 131-145 / 268-282: the HashMap keyed by (start, end), as a function *)
EmptyMap == [k \in {} |-> 0]

(* the test of line 139 left out: the later span always overwrites *)
DedupInsert_Overwrite(backend, m, span) ==
    LET key == <<span.start, span.end>>
    IN [k \in DOMAIN m \cup {key} |-> IF k = key THEN span ELSE m[k]]

DedupInsert(backend, m, span) ==
    LET key == <<span.start, span.end>>
        put == [k \in DOMAIN m \cup {key} |-> IF k = key THEN span ELSE m[k]]
    IN IF key \in DOMAIN m
       THEN IF HasStyling(backend, span) \/ ~HasStyling(backend, m[key])
            THEN put ELSE m
       ELSE put

RECURSIVE DedupFrom(_, _, _, _)
DedupFrom(backend, sorted, i, m) ==
    IF i > Len(sorted) THEN m
    ELSE DedupFrom(backend, sorted, i + 1, DedupInsert(backend, m, sorted[i]))

(* lines 124-145 / 262-282: sort by (start, -end), then deduplicate *)
DedupMap(backend, input) ==
    DedupFrom(backend, StableSort("start_asc_end_desc", input), 1, EmptyMap)

(* lines 162-171 / 331-337: two events per span, sorted by position with    *)
(* ends before starts; span_idx is 0-based as in the source.                *)
Event(pos, is_start, span_idx) ==
    [pos |-> pos, is_start |-> is_start, span_idx |-> span_idx]

BuildEvents(sp) ==
    StableSort("event",
        [j \in 1..2 * Len(sp) |->
            IF j % 2 = 1 THEN Event(sp[(j + 1) \div 2].start, TRUE, (j - 1) \div 2)
            ELSE Event(sp[j \div 2].end, FALSE, (j - 1) \div 2)])

(* stack.iter().rposition(|&x| x == span_idx) then stack.remove(idx) *)
RemoveLast(stack, span_idx) ==
    LET hits == {i \in 1..Len(stack) : stack[i] = span_idx}
    IN IF hits = {} THEN stack
       ELSE LET at == CHOOSE i \in hits : \A j \in hits : j <= i
            IN SubSeq(stack, 1, at - 1) \o SubSeq(stack, at + 1, Len(stack))

UpdateStack(stack, ev) ==
    IF ev.is_start THEN Append(stack, ev.span_idx)
    ELSE RemoveLast(stack, ev.span_idx)

(* the close tag of line 189 left out *)
EmitHtml_NoClose(sp, stack, text) ==
    IF Len(stack) > 0
    THEN <<make_html_tags(sp[stack[Len(stack)] + 1].tag)[1]>> \o html_escape(text)
    ELSE html_escape(text)

(* `stack.first()` for `stack.last()` in line 184: the outermost open span *)
EmitHtml_Bottom(sp, stack, text) ==
    IF Len(stack) > 0
    THEN LET tags == make_html_tags(sp[stack[1] + 1].tag)
         IN <<tags[1]>> \o html_escape(text) \o <<tags[2]>>
    ELSE html_escape(text)

(* lines 184-192 / 210-218: the text wrapped by the top of the stack *)
EmitHtml(sp, stack, text) ==
    IF Len(stack) > 0
    THEN LET tags == make_html_tags(sp[stack[Len(stack)] + 1].tag)
         IN <<tags[1]>> \o html_escape(text) \o <<tags[2]>>
    ELSE html_escape(text)

HtmlStart == [out |-> <<>>, last_pos |-> 0, stack |-> <<>>]

(* lines 178-205: one iteration of the event loop *)
HtmlEvent(src, sp, st, ev) ==
    LET emit == ev.pos > st.last_pos /\ ev.pos <= Len(src)
    IN [out |-> IF emit
                THEN st.out \o EmitHtml(sp, st.stack, Slice(src, st.last_pos, ev.pos))
                ELSE st.out,
        last_pos |-> IF emit THEN ev.pos ELSE st.last_pos,
        stack |-> UpdateStack(st.stack, ev)]

(* the loop state after the first k events *)
RECURSIVE HtmlAfter(_, _, _, _)
HtmlAfter(src, sp, events, k) ==
    IF k = 0 THEN HtmlStart
    ELSE HtmlEvent(src, sp, HtmlAfter(src, sp, events, k - 1), events[k])

(* the remaining text of lines 207-219 left out *)
HtmlFlush_Drop(src, sp, st) == st

(* lines 207-219: the remaining text *)
HtmlFlush(src, sp, st) ==
    IF st.last_pos < Len(src)
    THEN [st EXCEPT !.out = st.out \o EmitHtml(sp, st.stack, Slice(src, st.last_pos, Len(src))),
                    !.last_pos = Len(src)]
    ELSE st

(* lines 150-159: normalize, coalesce and re-sort the deduplicated spans *)
HtmlSpans(values) == StableSort("start_asc_end_desc", normalize_and_coalesce(values))

(* lines 150-221, from the deduplicated values on *)
HtmlRender(src, values) ==
    LET sp == HtmlSpans(values)
        events == BuildEvents(sp)
    IN IF Len(sp) = 0
       THEN [out |-> html_escape(src), last_pos |-> 0, stack |-> <<>>]
       ELSE HtmlFlush(src, sp, HtmlAfter(src, sp, events, Len(events)))

(* lines 294-324: StyledSpan {start, end, index}, sorted and coalesced by    *)
(* style index                                                              *)
Styled(span) ==
    [start |-> span.start, end |-> span.end,
     index |-> slot_to_highlight_index(capture_to_slot(span.capture))]

RECURSIVE CoalesceStyledFrom(_, _, _)
CoalesceStyledFrom(normalized, i, acc) ==
    IF i > Len(normalized) THEN acc
    ELSE LET span == normalized[i]
             n == Len(acc)
         IN IF n > 0 /\ span.index = acc[n].index /\ span.start <= acc[n].end
            THEN CoalesceStyledFrom(normalized, i + 1,
                     [acc EXCEPT ![n].end = Max(acc[n].end, span.end)])
            ELSE CoalesceStyledFrom(normalized, i + 1, Append(acc, span))

AnsiSpans(values) ==
    LET resolved == [i \in 1..Len(values) |-> Styled(values[i])]
        normalized == SelectSeq(resolved, LAMBDA s : s.index # NoIndex)
    IN CoalesceStyledFrom(StableSort("start_end", normalized), 1, <<>>)

(* lines 348-373 / 387-411: `desired` is the top of the stack, and the      *)
(* escape sequences are emitted when it differs from `active_style`.        *)
Desired(stack) == IF Len(stack) > 0 THEN stack[Len(stack)] ELSE NoIndex

EmitAnsi(active_style, desired, text) ==
    CASE active_style # NoIndex /\ desired # NoIndex /\ active_style = desired ->
            RawText(text)
      [] active_style # NoIndex /\ desired # NoIndex /\ active_style # desired ->
            <<Tok("reset", 0), Tok("style", desired)>> \o RawText(text)
      [] active_style = NoIndex /\ desired # NoIndex ->
            <<Tok("style", desired)>> \o RawText(text)
      [] active_style # NoIndex /\ desired = NoIndex ->
            <<Tok("reset", 0)>> \o RawText(text)
      [] OTHER -> RawText(text)

AnsiStart == [out |-> <<>>, last_pos |-> 0, stack |-> <<>>, active_style |-> NoIndex]

(* lines 344-383: one iteration of the event loop *)
AnsiEvent(src, st, ev) ==
    LET emit == ev.pos > st.last_pos /\ ev.pos <= Len(src)
    IN [out |-> IF emit
                THEN st.out \o EmitAnsi(st.active_style, Desired(st.stack),
                                        Slice(src, st.last_pos, ev.pos))
                ELSE st.out,
        last_pos |-> IF emit THEN ev.pos ELSE st.last_pos,
        stack |-> UpdateStack(st.stack, ev),
        active_style |-> IF emit THEN Desired(st.stack) ELSE st.active_style]

RECURSIVE AnsiAfter(_, _, _)
AnsiAfter(src, events, k) ==
    IF k = 0 THEN AnsiStart
    ELSE AnsiEvent(src, AnsiAfter(src, events, k - 1), events[k])

(* lines 385-416: the remaining text, then the final reset *)
AnsiFlush(src, st) ==
    LET rest == st.last_pos < Len(src)
        out1 == IF rest
                THEN st.out \o EmitAnsi(st.active_style, Desired(st.stack),
                                        Slice(src, st.last_pos, Len(src)))
                ELSE st.out
        active1 == IF rest THEN Desired(st.stack) ELSE st.active_style
    IN [st EXCEPT !.out = IF active1 # NoIndex THEN Append(out1, Tok("reset", 0)) ELSE out1,
                  !.last_pos = IF rest THEN Len(src) ELSE st.last_pos,
                  !.active_style = active1]

(* lines 284-418, from the deduplicated values on *)
AnsiRender(src, values) ==
    LET sp == AnsiSpans(values)
        events == BuildEvents(sp)
    IN IF Len(sp) = 0
       THEN [out |-> RawText(src), last_pos |-> 0, stack |-> <<>>, active_style |-> NoIndex]
       ELSE AnsiFlush(src, AnsiAfter(src, events, Len(events)))

----------------------------------------------------------------------------
(* arborium-plugin-runtime/src/lib.rs *)

CANCELLATION_CHECK_INTERVAL == 100

(* Bounds of the runtime model: handles are counted modulo HandleModulus    *)
(* (2^32 in the source), at most MaxLive sessions are live at a time, and   *)
(* the long text has CANCELLATION_CHECK_INTERVAL + ExtraMatches matches.    *)
HandleModulus == 3
MaxLive == 2
ExtraMatches == 1

Handles == 0..HandleModulus - 1

NoTree == "none"
EmptyText == "empty"
Texts == {"short", "brief"}
LongTexts == {"long"}

(* Session::new, lines 136-148 *)
NewSession == [tree |-> NoTree, text |-> EmptyText, cancelled |-> FALSE]

(* Option<T> *)
None == <<>>

Some(x) == <<x>>

(* A query text is a sequence of patterns, one per line, with or without a  *)
(* newline after the last; a pattern has a length in bytes, the captures    *)
(* it names and its `#set!` properties.                                     *)
Property(key, value) == [key |-> key, value |-> value]

Pattern(name, length, captures, properties) ==
    [name |-> name, length |-> length, captures |-> captures, properties |-> properties]

QueryText(patterns, ends_with_newline) ==
    [patterns |-> patterns, ends_with_newline |-> ends_with_newline]

is_empty(text) == text.patterns = <<>>

(* the byte at which pattern i of a text starts *)
RECURSIVE PatternStart(_, _)
PatternStart(text, i) ==
    IF i = 1 THEN 0 ELSE PatternStart(text, i - 1) + text.patterns[i - 1].length + 1

(* str::len *)
TextLen(text) ==
    IF is_empty(text) THEN 0
    ELSE PatternStart(text, Len(text.patterns)) + text.patterns[Len(text.patterns)].length
         + (IF text.ends_with_newline THEN 1 ELSE 0)

(* the patterns of a text with their start bytes in a query source in       *)
(* which the text begins at byte `base`                                     *)
Placed(text, base) ==
    [i \in 1..Len(text.patterns) |->
        [pattern |-> text.patterns[i], offset |-> base + PatternStart(text, i)]]

RECURSIVE AddNames(_, _)
AddNames(names, more) ==
    IF more = <<>> THEN names
    ELSE AddNames(IF \E i \in 1..Len(names) : names[i] = Head(more)
                  THEN names ELSE Append(names, Head(more)),
                  Tail(more))

(* Query::new: the compiled query knows, per pattern, its start byte and    *)
(* its properties, and the capture names in the order of first use          *)
Query_new(placed) ==
    LET names[k \in 0..Len(placed)] ==
            IF k = 0 THEN <<>> ELSE AddNames(names[k - 1], placed[k].pattern.captures)
    IN [patterns |-> [i \in 1..Len(placed) |-> placed[i].pattern.name],
        pattern_offsets |-> [i \in 1..Len(placed) |-> placed[i].offset],
        capture_names |-> names[Len(placed)],
        property_settings |-> [i \in 1..Len(placed) |-> placed[i].pattern.properties]]

(* the index of a capture name of a query, 0-based as in the source *)
CaptureIndex(query, name) ==
    LET hits == {i \in 1..Len(query.capture_names) : query.capture_names[i] = name}
    IN IF hits = {} THEN NoIndex ELSE (CHOOSE i \in hits : \A j \in hits : j <= i) - 1

(* a boundary of lines 87-97 that also counts the pattern that starts at    *)
(* the offset of the section                                                *)
HighlightConfig_new_Inclusive(highlights_query, injections_query, locals_query) ==
    LET sep(text) == IF ~is_empty(text) /\ ~text.ends_with_newline THEN 1 ELSE 0
        locals_query_offset == TextLen(injections_query) + sep(injections_query)
        highlights_query_offset ==
            locals_query_offset + TextLen(locals_query) + sep(locals_query)
        query == Query_new(Placed(injections_query, 0)
                           \o Placed(locals_query, locals_query_offset)
                           \o Placed(highlights_query, highlights_query_offset))
        before_highlights == {i \in 1..Len(query.pattern_offsets) :
                                 query.pattern_offsets[i] <= highlights_query_offset}
    IN [query |-> query,
        injection_content_capture_index |-> CaptureIndex(query, "injection.content"),
        injection_language_capture_index |-> CaptureIndex(query, "injection.language"),
        locals_pattern_index |->
            Cardinality({i \in before_highlights :
                            query.pattern_offsets[i] < locals_query_offset}),
        highlights_pattern_index |-> Cardinality(before_highlights)]

(* lines 62-118: the three texts are concatenated (injections, locals,      *)
(* highlights, a newline added after a text that lacks one), compiled as    *)
(* one query, and the two boundaries counted from the pattern start bytes   *)
HighlightConfig_new(highlights_query, injections_query, locals_query) ==
    LET sep(text) == IF ~is_empty(text) /\ ~text.ends_with_newline THEN 1 ELSE 0
        locals_query_offset == TextLen(injections_query) + sep(injections_query)
        highlights_query_offset ==
            locals_query_offset + TextLen(locals_query) + sep(locals_query)
        query == Query_new(Placed(injections_query, 0)
                           \o Placed(locals_query, locals_query_offset)
                           \o Placed(highlights_query, highlights_query_offset))
        before_highlights == {i \in 1..Len(query.pattern_offsets) :
                                 query.pattern_offsets[i] < highlights_query_offset}
    IN [query |-> query,
        injection_content_capture_index |-> CaptureIndex(query, "injection.content"),
        injection_language_capture_index |-> CaptureIndex(query, "injection.language"),
        locals_pattern_index |->
            Cardinality({i \in before_highlights :
                            query.pattern_offsets[i] < locals_query_offset}),
        highlights_pattern_index |-> Cardinality(before_highlights)]

(* tree_sitter.rs, lines 38-48 *)
GrammarConfig(highlights_query, injections_query, locals_query) ==
    [highlights_query |-> highlights_query,
     injections_query |-> injections_query,
     locals_query |-> locals_query]

(* tree_sitter.rs, lines 106-144: the highlights and the injections text    *)
(* are compiled as two queries, the second only when the text is not empty  *)
CompiledGrammar_new(grammar_config) ==
    LET highlights_query == Query_new(Placed(grammar_config.highlights_query, 0))
        injections_query ==
            IF is_empty(grammar_config.injections_query) THEN None
            ELSE Some(Query_new(Placed(grammar_config.injections_query, 0)))
    IN [highlights_query |-> highlights_query,
        injections_query |-> injections_query,
        injection_content_idx |->
            IF injections_query = None THEN NoIndex
            ELSE CaptureIndex(injections_query[1], "injection.content"),
        injection_language_idx |->
            IF injections_query = None THEN NoIndex
            ELSE CaptureIndex(injections_query[1], "injection.language")]

(* The patterns the query texts of the model are written with *)
ScriptPattern ==
    Pattern("script", 39, <<"injection.content", "injection.language">>,
            <<Property("injection.language", Some(<<"c", "s", "s">>)),
              Property("injection.include-children", None)>>)

MarkupPattern == Pattern("markup", 19, <<"injection.content">>, <<>>)

DefinitionPattern == Pattern("definition", 19, <<"local.definition">>, <<>>)

KeywordPattern == Pattern("keyword", 19, <<"keyword">>, <<>>)

FunctionPattern == Pattern("function", 19, <<"function", "_internal">>, <<>>)

ReferencePattern ==
    Pattern("reference", 19, <<"variable", "local.reference", "injection.content">>, <<>>)

(* the query texts of a grammar crate: injections, locals and highlights    *)
(* patterns, each in the text of its kind                                   *)
DefaultGrammar ==
    GrammarConfig(QueryText(<<KeywordPattern, FunctionPattern>>, TRUE),
                  QueryText(<<ScriptPattern>>, TRUE),
                  QueryText(<<DefinitionPattern>>, TRUE))

TextsOf(pattern_lists) ==
    {QueryText(patterns, newline) : patterns \in pattern_lists \ {<<>>}, newline \in BOOLEAN}
    \cup {QueryText(<<>>, FALSE) : patterns \in pattern_lists \cap {<<>>}}

HighlightsTexts ==
    TextsOf({<<>>, <<KeywordPattern, FunctionPattern>>,
             <<ReferencePattern, KeywordPattern, FunctionPattern>>})

InjectionsTexts == TextsOf({<<>>, <<ScriptPattern>>, <<MarkupPattern, ScriptPattern>>})

LocalsTexts == TextsOf({<<>>, <<DefinitionPattern>>})

GrammarConfigs ==
    {GrammarConfig(h, i, l) : h \in HighlightsTexts, i \in InjectionsTexts, l \in LocalsTexts}

(* What the query engine finds in the tree of a text: per match, the        *)
(* pattern that matched and the nodes it captured (name, byte range, text), *)
(* in the order the cursor yields the matches.                              *)
Node(name, start, end) == [name |-> name, start |-> start, end |-> end]

Found(pattern, nodes) == [pattern |-> pattern, nodes |-> nodes]

LongMatchCount == CANCELLATION_CHECK_INTERVAL + ExtraMatches

(* the bytes of the texts of the model *)
Bytes(text) ==
    IF text = "short"
    THEN <<"f", "n", " ", "m", "a", "i", "n", " ", "j", "s", "x", ";", "y", ";">>
    ELSE IF text = "brief"
    THEN <<"l", "e", "t", " ", "v", "s", " ", "p", "y">>
    ELSE IF text = "long"
    THEN [i \in 1..LongMatchCount |-> "w"]
    ELSE <<>>

Finds(tree) ==
    IF tree = "short"
    THEN <<Found("function", <<Node("function", 3, 7), Node("_internal", 3, 7)>>),
           Found("script", <<Node("injection.language", 8, 10),
                             Node("injection.content", 10, 12)>>),
           Found("definition", <<Node("local.definition", 3, 7)>>),
           Found("reference", <<Node("variable", 3, 7),
                                Node("local.reference", 3, 7),
                                Node("injection.content", 8, 10)>>),
           Found("keyword", <<Node("keyword", 0, 2)>>),
           Found("script", <<Node("injection.content", 12, 14)>>)>>
    ELSE IF tree = "brief"
    THEN <<Found("keyword", <<Node("keyword", 0, 3)>>),
           Found("markup", <<Node("injection.content", 4, 6)>>),
           Found("script", <<Node("injection.language", 7, 9)>>)>>
    ELSE [i \in 1..LongMatchCount |->
            Found(IF i % 2 = 0 THEN "keyword" ELSE "function",
                  <<Node(IF i % 2 = 0 THEN "keyword" ELSE "function",
                         LongMatchCount - i, LongMatchCount - i + 1)>>)]

(* QueryCapture and QueryMatch: indices into the capture names and the      *)
(* patterns of the query, 0-based as in the source                          *)
Capture(query, node) ==
    [index |-> CaptureIndex(query, node.name), start |-> node.start, end |-> node.end]

Match(pattern_index, captures) == [pattern_index |-> pattern_index, captures |-> captures]

PatternIndex(query, name) ==
    (CHOOSE i \in 1..Len(query.patterns) : query.patterns[i] = name) - 1

(* cursor.matches(query, root, source): the matches of the patterns of the  *)
(* query                                                                    *)
Matches(query, tree) ==
    LET found == SelectSeq(Finds(tree),
                           LAMBDA f : \E i \in 1..Len(query.patterns) : query.patterns[i] = f.pattern)
    IN [k \in 1..Len(found) |->
           Match(PatternIndex(query, found[k].pattern),
                 [j \in 1..Len(found[k].nodes) |-> Capture(query, found[k].nodes[j])])]

(* what a call returned; NoCall before the first call *)
NoCall == [op |-> "none", id |-> 0, kind |-> "none", error |-> "",
           spans |-> <<>>, injections |-> <<>>]

(* the return of a method without a result, and of create_session *)
Unit == [NoCall EXCEPT !.kind = "unit"]

Handle(id) == [NoCall EXCEPT !.op = "create_session", !.id = id, !.kind = "handle"]

(* Ok(ParseResult { spans, injections }) *)
Ok(id, s, inj) ==
    [op |-> "parse", id |-> id, kind |-> "ok", error |-> "", spans |-> s, injections |-> inj]

(* the call did not return: it panicked *)
Panicked(id) ==
    [op |-> "parse", id |-> id, kind |-> "panic", error |-> "",
     spans |-> <<>>, injections |-> <<>>]

(* Err(ParseError::new(message)) *)
Err(id, message) ==
    [op |-> "parse", id |-> id, kind |-> "err", error |-> message,
     spans |-> <<>>, injections |-> <<>>]

(* lines 164-171: PluginRuntime::new, the config given by the caller apart *)
NoSessions ==
    /\ sessions = EmptyMap
    /\ next_session_id = 1
    /\ ppc = "idle"
    /\ parse_id = 0
    /\ next_match = 0
    /\ check_count = 0
    /\ parse_spans = <<>>
    /\ parse_injections = <<>>
    /\ ret = NoCall
    /\ requested = {}
    /\ edited = EmptyMap

(* the HighlightConfig and the CompiledGrammar of the query texts of a      *)
(* grammar crate                                                            *)
Configured(grammar_config) ==
    /\ config = HighlightConfig_new(grammar_config.highlights_query,
                                    grammar_config.injections_query,
                                    grammar_config.locals_query)
    /\ grammar = CompiledGrammar_new(grammar_config)

RuntimeIdle == NoSessions /\ Configured(DefaultGrammar)

(* Every method takes `&mut self`: a call starts only when no other call    *)
(* on the runtime is in progress.                                           *)
ExclusiveAccess == ppc = "idle"

Without(f, key) == [k \in DOMAIN f \ {key} |-> f[k]]

ParseIdle == UNCHANGED <<ppc, parse_id, next_match, check_count, parse_spans, parse_injections>>

(* lines 174-179: fetch_add on the AtomicU32 wraps around *)
create_session(limit) ==
    /\ ExclusiveAccess
    /\ Cardinality(DOMAIN sessions) < limit
    /\ LET id == next_session_id
       IN /\ next_session_id' = (next_session_id + 1) % HandleModulus
          /\ sessions' = [h \in DOMAIN sessions \cup {id} |->
                             IF h = id THEN NewSession ELSE sessions[h]]
          /\ ret' = Handle(id)
          /\ requested' = requested \ {id}
          /\ edited' = Without(edited, id)
    /\ ParseIdle
    /\ UNCHANGED <<rvars, cvars>>

(* lines 182-184 *)
free_session(session_id) ==
    /\ ExclusiveAccess
    /\ sessions' = [h \in DOMAIN sessions \ {session_id} |-> sessions[h]]
    /\ requested' = requested \ {session_id}
    /\ edited' = Without(edited, session_id)
    /\ ret' = Unit
    /\ ParseIdle
    /\ UNCHANGED <<next_session_id, rvars, cvars>>

(* Parser::parse returns a tree, or none on total failure *)
ParserResults(text) == {text, NoTree}

(* the store of line 193 left out *)
set_text_KeepFlag(session_id, text) ==
    /\ ExclusiveAccess
    /\ IF session_id \in DOMAIN sessions
       THEN \E tree \in ParserResults(text) :
               sessions' = [sessions EXCEPT ![session_id] =
                               [text |-> text, tree |-> tree,
                                cancelled |-> sessions[session_id].cancelled]]
       ELSE UNCHANGED sessions
    /\ requested' = requested \ {session_id}
    /\ edited' = Without(edited, session_id)
    /\ ret' = Unit
    /\ ParseIdle
    /\ UNCHANGED <<next_session_id, rvars, cvars>>

(* lines 189-195 *)
set_text(session_id, text) ==
    /\ ExclusiveAccess
    /\ IF session_id \in DOMAIN sessions
       THEN \E tree \in ParserResults(text) :
               sessions' = [sessions EXCEPT ![session_id] =
                               [text |-> text, tree |-> tree, cancelled |-> FALSE]]
       ELSE UNCHANGED sessions
    /\ requested' = requested \ {session_id}
    /\ edited' = Without(edited, session_id)
    /\ ret' = Unit
    /\ ParseIdle
    /\ UNCHANGED <<next_session_id, rvars, cvars>>

(* Edit (arborium-wire/src/lib.rs, lines 180-199); the texts of the model   *)
(* are one line: the row of a position is 0 and its column is its byte      *)
Edit(start_byte, old_end_byte, new_end_byte) ==
    [start_byte |-> start_byte, old_end_byte |-> old_end_byte, new_end_byte |-> new_end_byte]

(* the edits callers pass: the replacement of a whole text by another and   *)
(* the edit that changes nothing                                            *)
Edits(texts) ==
    {Edit(0, Len(Bytes(old)), Len(Bytes(new))) : old \in texts, new \in texts}
    \cup {Edit(0, 0, 0)}

(* the edit describes the change of old_text into new_text: the bytes       *)
(* before start_byte and the bytes after the two ends are the same          *)
Describes(edit, old_text, new_text) ==
    LET old == Bytes(old_text)
        new == Bytes(new_text)
    IN /\ edit.start_byte <= edit.old_end_byte /\ edit.old_end_byte <= Len(old)
       /\ edit.start_byte <= edit.new_end_byte /\ edit.new_end_byte <= Len(new)
       /\ Len(old) - edit.old_end_byte = Len(new) - edit.new_end_byte
       /\ \A k \in 1..edit.start_byte : old[k] = new[k]
       /\ \A k \in 1..Len(old) - edit.old_end_byte :
             old[edit.old_end_byte + k] = new[edit.new_end_byte + k]

(* Parser::parse(text, old_tree) after Tree::edit: the parser parses again  *)
(* what the edit marked as changed and reuses the nodes of the old tree     *)
(* elsewhere.  With an edit that describes the change the result is a tree  *)
(* of the text; with any other edit the nodes of the old text may stay.     *)
IncrementalResults(text, old_tree, described) ==
    IF old_tree = NoTree \/ described
    THEN ParserResults(text)
    ELSE ParserResults(text) \cup {old_tree}

(* the parse of lines 224-225 left out: the edited old tree is kept *)
apply_edit_KeepTree(session_id, new_text, edit) ==
    /\ ExclusiveAccess
    /\ IF session_id \in DOMAIN sessions
       THEN /\ sessions' = [sessions EXCEPT ![session_id] =
                               [text |-> new_text, tree |-> sessions[session_id].tree,
                                cancelled |-> FALSE]]
            /\ edited' =
                  IF sessions[session_id].tree = NoTree
                  THEN Without(edited, session_id)
                  ELSE [h \in DOMAIN edited \cup {session_id} |->
                           IF h = session_id
                           THEN Describes(edit, sessions[session_id].text, new_text)
                           ELSE edited[h]]
       ELSE UNCHANGED <<sessions, edited>>
    /\ requested' = requested \ {session_id}
    /\ ret' = Unit
    /\ ParseIdle
    /\ UNCHANGED <<next_session_id, rvars, cvars>>

(* lines 200-228: the text is replaced, the edit is applied to the old      *)
(* tree if there is one, the text is parsed with the old tree, and the      *)
(* flag is cleared; the edit is not compared with the texts                 *)
apply_edit(session_id, new_text, edit) ==
    /\ ExclusiveAccess
    /\ IF session_id \in DOMAIN sessions
       THEN LET described == Describes(edit, sessions[session_id].text, new_text)
            IN /\ \E tree \in IncrementalResults(new_text, sessions[session_id].tree,
                                                  described) :
                     sessions' = [sessions EXCEPT ![session_id] =
                                     [text |-> new_text, tree |-> tree, cancelled |-> FALSE]]
               /\ edited' =
                     IF sessions[session_id].tree = NoTree
                     THEN Without(edited, session_id)
                     ELSE [h \in DOMAIN edited \cup {session_id} |->
                              IF h = session_id THEN described ELSE edited[h]]
       ELSE UNCHANGED <<sessions, edited>>
    /\ requested' = requested \ {session_id}
    /\ ret' = Unit
    /\ ParseIdle
    /\ UNCHANGED <<next_session_id, rvars, cvars>>

(* lines 231-235 *)
cancel(session_id) ==
    /\ ExclusiveAccess
    /\ IF session_id \in DOMAIN sessions
       THEN sessions' = [sessions EXCEPT ![session_id].cancelled = TRUE]
       ELSE UNCHANGED sessions
    /\ requested' = requested \cup (DOMAIN sessions \cap {session_id})
    /\ ret' = Unit
    /\ ParseIdle
    /\ UNCHANGED <<next_session_id, edited, rvars, cvars>>

(* the cancellation check of lines 247-249 left out *)
parse_enter_NoCancelCheck(session_id) ==
    /\ ExclusiveAccess
    /\ IF session_id \notin DOMAIN sessions
       THEN /\ ret' = Err(session_id, "invalid session id")
            /\ ParseIdle
       ELSE IF sessions[session_id].tree = NoTree
       THEN /\ ret' = Err(session_id, "no text set for session")
            /\ ParseIdle
       ELSE /\ ppc' = "iterating"
            /\ parse_id' = session_id
            /\ next_match' = 1
            /\ check_count' = 0
            /\ parse_spans' = <<>>
            /\ parse_injections' = <<>>
            /\ ret' = [NoCall EXCEPT !.op = "parse", !.id = session_id, !.kind = "running"]
    /\ UNCHANGED <<sessions, next_session_id, requested, edited, rvars, cvars>>

(* an empty result in place of the error of lines 251-254 *)
parse_enter_EmptyForNoTree(session_id) ==
    /\ ExclusiveAccess
    /\ IF session_id \notin DOMAIN sessions
       THEN /\ ret' = Err(session_id, "invalid session id")
            /\ ParseIdle
       ELSE IF sessions[session_id].cancelled \/ sessions[session_id].tree = NoTree
       THEN /\ ret' = Ok(session_id, <<>>, <<>>)
            /\ ParseIdle
       ELSE /\ ppc' = "iterating"
            /\ parse_id' = session_id
            /\ next_match' = 1
            /\ check_count' = 0
            /\ parse_spans' = <<>>
            /\ parse_injections' = <<>>
            /\ ret' = [NoCall EXCEPT !.op = "parse", !.id = session_id, !.kind = "running"]
    /\ UNCHANGED <<sessions, next_session_id, requested, edited, rvars, cvars>>

(* lines 240-266: the entry of parse *)
parse_enter(session_id) ==
    /\ ExclusiveAccess
    /\ IF session_id \notin DOMAIN sessions
       THEN /\ ret' = Err(session_id, "invalid session id")
            /\ ParseIdle
       ELSE IF sessions[session_id].cancelled
       THEN /\ ret' = Ok(session_id, <<>>, <<>>)
            /\ ParseIdle
       ELSE IF sessions[session_id].tree = NoTree
       THEN /\ ret' = Err(session_id, "no text set for session")
            /\ ParseIdle
       ELSE /\ ppc' = "iterating"
            /\ parse_id' = session_id
            /\ next_match' = 1
            /\ check_count' = 0
            /\ parse_spans' = <<>>
            /\ parse_injections' = <<>>
            /\ ret' = [NoCall EXCEPT !.op = "parse", !.id = session_id, !.kind = "running"]
    /\ UNCHANGED <<sessions, next_session_id, requested, edited, rvars, cvars>>

(* lines 280-317: the injection of a match of the injections section; the  *)
(* node texts of the model are valid UTF-8                                  *)
CaptureName(query, capture) == query.capture_names[capture.index + 1]

LastWith(captures, index) ==
    LET hits == {i \in 1..Len(captures) : captures[i].index = index}
    IN IF hits = {} THEN 0 ELSE CHOOSE i \in hits : \A j \in hits : j <= i

FirstWith(captures, index) ==
    LET hits == {i \in 1..Len(captures) : captures[i].index = index}
    IN IF hits = {} THEN 0 ELSE CHOOSE i \in hits : \A j \in hits : i <= j

(* the `#set! injection.language` properties of a pattern that have a value *)
LanguageProperties(query, pattern_index) ==
    SelectSeq(query.property_settings[pattern_index + 1],
              LAMBDA prop : prop.key = "injection.language" /\ prop.value # None)

IncludeChildren(query, pattern_index) ==
    \E i \in 1..Len(query.property_settings[pattern_index + 1]) :
        query.property_settings[pattern_index + 1][i].key = "injection.include-children"

Injection(node, language, include_children) ==
    [start |-> node.start, end |-> node.end,
     language |-> language, include_children |-> include_children]

(* Node::utf8_text(source): the bytes of the source in the range of the    *)
(* node; taking the slice panics when the range is not within the bytes   *)
utf8_text(bytes, node) == SubSeq(bytes, node.start + 1, node.end)

OutOfBounds(bytes, node) == node.end > Len(bytes) \/ node.start > node.end

(* line 285 panics for a captured language node that is not within the     *)
(* bytes                                                                  *)
SlicePanics(bytes, m) ==
    \E i \in 1..Len(m.captures) :
        /\ m.captures[i].index = config.injection_language_capture_index
        /\ OutOfBounds(bytes, m.captures[i])

InjectionsOf(bytes, m) ==
    LET lang_at == LastWith(m.captures, config.injection_language_capture_index)
        content_at == LastWith(m.captures, config.injection_content_capture_index)
        props == LanguageProperties(config.query, m.pattern_index)
        language_name ==
            IF lang_at # 0 THEN Some(utf8_text(bytes, m.captures[lang_at]))
            ELSE IF props # <<>> THEN props[1].value
            ELSE None
    IN IF language_name # None /\ content_at # 0
       THEN <<Injection(m.captures[content_at], language_name[1],
                        IncludeChildren(config.query, m.pattern_index))>>
       ELSE <<>>

(* lines 327-351: one span per capture of a match of the highlights section; *)
(* Skipped holds of the capture names of the model that start with '_',      *)
(* "injection." or "local." (lines 332-343)                                  *)
Skipped(name) ==
    name \in {"_internal", "injection.content", "injection.language",
              "local.definition", "local.reference"}

SpansOf(m) ==
    LET kept == SelectSeq(m.captures, LAMBDA c : ~Skipped(CaptureName(config.query, c)))
    IN [i \in 1..Len(kept) |->
           [start |-> kept[i].start, end |-> kept[i].end,
            capture |-> CaptureName(config.query, kept[i])]]

(* the reset of line 270 left out *)
parse_match_NoReset ==
    /\ ppc = "iterating"
    /\ next_match <= Len(Matches(config.query, sessions[parse_id].tree))
    /\ LET m == Matches(config.query, sessions[parse_id].tree)[next_match]
           bytes == Bytes(sessions[parse_id].text)
           checking == check_count + 1 >= CANCELLATION_CHECK_INTERVAL
       IN IF checking /\ sessions[parse_id].cancelled
          THEN /\ ret' = Ok(parse_id, <<>>, <<>>)
               /\ ppc' = "idle"
               /\ next_match' = 0
               /\ check_count' = 0
               /\ parse_spans' = <<>>
               /\ parse_injections' = <<>>
          ELSE IF m.pattern_index < config.locals_pattern_index /\ SlicePanics(bytes, m)
          THEN /\ ret' = Panicked(parse_id)
               /\ ppc' = "idle"
               /\ next_match' = 0
               /\ check_count' = 0
               /\ parse_spans' = <<>>
               /\ parse_injections' = <<>>
          ELSE /\ check_count' = check_count + 1
               /\ next_match' = next_match + 1
               /\ parse_injections' =
                     IF m.pattern_index < config.locals_pattern_index
                     THEN parse_injections \o InjectionsOf(bytes, m)
                     ELSE parse_injections
               /\ parse_spans' =
                     IF \/ m.pattern_index < config.locals_pattern_index
                        \/ m.pattern_index < config.highlights_pattern_index
                     THEN parse_spans
                     ELSE parse_spans \o SpansOf(m)
               /\ UNCHANGED <<ppc, ret>>
    /\ UNCHANGED <<sessions, next_session_id, parse_id, requested, edited, rvars, cvars>>

(* lines 268-352: one iteration of the match loop *)
parse_match ==
    /\ ppc = "iterating"
    /\ next_match <= Len(Matches(config.query, sessions[parse_id].tree))
    /\ LET m == Matches(config.query, sessions[parse_id].tree)[next_match]
           bytes == Bytes(sessions[parse_id].text)
           checking == check_count + 1 >= CANCELLATION_CHECK_INTERVAL
       IN IF checking /\ sessions[parse_id].cancelled
          THEN /\ ret' = Ok(parse_id, <<>>, <<>>)
               /\ ppc' = "idle"
               /\ next_match' = 0
               /\ check_count' = 0
               /\ parse_spans' = <<>>
               /\ parse_injections' = <<>>
          ELSE IF m.pattern_index < config.locals_pattern_index /\ SlicePanics(bytes, m)
          THEN /\ ret' = Panicked(parse_id)
               /\ ppc' = "idle"
               /\ next_match' = 0
               /\ check_count' = 0
               /\ parse_spans' = <<>>
               /\ parse_injections' = <<>>
          ELSE /\ check_count' = IF checking THEN 0 ELSE check_count + 1
               /\ next_match' = next_match + 1
               /\ parse_injections' =
                     IF m.pattern_index < config.locals_pattern_index
                     THEN parse_injections \o InjectionsOf(bytes, m)
                     ELSE parse_injections
               /\ parse_spans' =
                     IF \/ m.pattern_index < config.locals_pattern_index
                        \/ m.pattern_index < config.highlights_pattern_index
                     THEN parse_spans
                     ELSE parse_spans \o SpansOf(m)
               /\ UNCHANGED <<ppc, ret>>
    /\ UNCHANGED <<sessions, next_session_id, parse_id, requested, edited, rvars, cvars>>

(* the sort of line 355 left out *)
parse_return_Unsorted ==
    /\ ppc = "iterating"
    /\ next_match > Len(Matches(config.query, sessions[parse_id].tree))
    /\ ret' = Ok(parse_id, parse_spans, parse_injections)
    /\ ppc' = "idle"
    /\ next_match' = 0
    /\ check_count' = 0
    /\ parse_spans' = <<>>
    /\ parse_injections' = <<>>
    /\ UNCHANGED <<sessions, next_session_id, parse_id, requested, edited, rvars, cvars>>

(* a return after the first match, before the iterator is exhausted *)
parse_return_Early ==
    /\ ppc = "iterating"
    /\ next_match > 1
    /\ ret' = Ok(parse_id, StableSort("start_end", parse_spans), parse_injections)
    /\ ppc' = "idle"
    /\ next_match' = 0
    /\ check_count' = 0
    /\ parse_spans' = <<>>
    /\ parse_injections' = <<>>
    /\ UNCHANGED <<sessions, next_session_id, parse_id, requested, edited, rvars, cvars>>

(* lines 354-357: the spans are sorted and returned *)
parse_return ==
    /\ ppc = "iterating"
    /\ next_match > Len(Matches(config.query, sessions[parse_id].tree))
    /\ ret' = Ok(parse_id, StableSort("start_end", parse_spans), parse_injections)
    /\ ppc' = "idle"
    /\ next_match' = 0
    /\ check_count' = 0
    /\ parse_spans' = <<>>
    /\ parse_injections' = <<>>
    /\ UNCHANGED <<sessions, next_session_id, parse_id, requested, edited, rvars, cvars>>

----------------------------------------------------------------------------
(* arborium-highlight/src/tree_sitter.rs *)

RECURSIVE Flatten(_)
Flatten(lists) == IF lists = <<>> THEN <<>> ELSE Head(lists) \o Flatten(Tail(lists))

(* lines 172-194: one span per capture of a match of the highlights query,  *)
(* captures whose name starts with '_' or "injection." apart                *)
SkippedByGrammar(name) == name \in {"_internal", "injection.content", "injection.language"}

GrammarSpansOf(m) ==
    LET kept == SelectSeq(m.captures,
                          LAMBDA c : ~SkippedByGrammar(CaptureName(grammar.highlights_query, c)))
    IN [i \in 1..Len(kept) |->
           [start |-> kept[i].start, end |-> kept[i].end,
            capture |-> CaptureName(grammar.highlights_query, kept[i]),
            pattern_index |-> m.pattern_index]]

(* lines 202-244: the injection of a match of the injections query; the     *)
(* properties are read before the captures, and a captured language node    *)
(* is used only when no property gave a language                            *)
GrammarInjectionsOf(bytes, m) ==
    LET injections_query == grammar.injections_query[1]
        props == LanguageProperties(injections_query, m.pattern_index)
        lang_at == FirstWith(m.captures, grammar.injection_language_idx)
        content_at == LastWith(m.captures, grammar.injection_content_idx)
        language_name ==
            IF props # <<>> THEN props[Len(props)].value
            ELSE IF lang_at # 0 THEN Some(utf8_text(bytes, m.captures[lang_at]))
            ELSE None
    IN IF content_at # 0 /\ language_name # None
       THEN <<Injection(m.captures[content_at], language_name[1],
                        IncludeChildren(injections_query, m.pattern_index))>>
       ELSE <<>>

(* ParseResult { spans, injections } of CompiledGrammar::parse *)
GrammarParsed(s, inj) ==
    [op |-> "CompiledGrammar::parse", id |-> 0, kind |-> "ok", error |-> "",
     spans |-> s, injections |-> inj]

(* lines 155-247: CompiledGrammar::parse(ctx, text) *)
CompiledGrammar_parse(text) ==
    /\ ppc = "idle"
    /\ \E tree \in ParserResults(text) :
          ret' = IF tree = NoTree
                 THEN GrammarParsed(<<>>, <<>>)
                 ELSE LET highlights == Matches(grammar.highlights_query, tree)
                          injections ==
                              IF grammar.injections_query = None THEN <<>>
                              ELSE Matches(grammar.injections_query[1], tree)
                      IN GrammarParsed(
                             Flatten([k \in 1..Len(highlights) |-> GrammarSpansOf(highlights[k])]),
                             Flatten([k \in 1..Len(injections) |->
                                         GrammarInjectionsOf(Bytes(text), injections[k])]))
    /\ ParseIdle
    /\ UNCHANGED <<sessions, next_session_id, requested, edited, rvars, cvars>>

RenderIdle ==
    /\ source = <<>>
    /\ spans = <<>>
    /\ rpc = "input"
    /\ deduped = EmptyMap
    /\ coalesced = <<>>
    /\ recoalesced = <<>>
    /\ html = <<>>
    /\ htmlStack = <<>>
    /\ ansiDeduped = EmptyMap
    /\ ansi = <<>>

RuntimeInit == RenderIdle /\ RuntimeIdle

RuntimeNext ==
    \/ create_session(MaxLive)
    \/ \E h \in Handles : free_session(h)
    \/ \E h \in Handles, text \in Texts : set_text(h, text)
    \/ \E h \in Handles, text \in Texts, edit \in Edits(Texts) : apply_edit(h, text, edit)
    \/ \E h \in Handles : cancel(h)
    \/ \E h \in Handles : parse_enter(h)
    \/ parse_match
    \/ parse_return

RuntimeSpec == RuntimeInit /\ [][RuntimeNext]_vars

(* One session at a time, on a text with more matches than the             *)
(* cancellation check interval                                             *)
IterationNext ==
    \/ create_session(1)
    \/ \E h \in Handles : free_session(h)
    \/ \E h \in Handles, text \in LongTexts : set_text(h, text)
    \/ \E h \in Handles, text \in LongTexts, edit \in Edits(LongTexts) :
          apply_edit(h, text, edit)
    \/ \E h \in Handles : cancel(h)
    \/ \E h \in Handles : parse_enter(h)
    \/ parse_match
    \/ parse_return

IterationSpec == RuntimeInit /\ [][IterationNext]_vars

(* One session of a runtime and a grammar, both built from the same query   *)
(* texts, which range over GrammarConfigs                                   *)
QueryInit == RenderIdle /\ NoSessions /\ \E grammar_config \in GrammarConfigs : Configured(grammar_config)

QueryNext ==
    \/ create_session(1)
    \/ \E h \in Handles : free_session(h)
    \/ \E h \in Handles, text \in Texts : set_text(h, text)
    \/ \E h \in Handles, text \in Texts, edit \in Edits(Texts) : apply_edit(h, text, edit)
    \/ \E h \in Handles : cancel(h)
    \/ \E h \in Handles : parse_enter(h)
    \/ parse_match
    \/ parse_return
    \/ \E text \in Texts : CompiledGrammar_parse(text)

QuerySpec == QueryInit /\ [][QueryNext]_vars

----------------------------------------------------------------------------
(* Inputs *)

RECURSIVE SeqsUpTo(_, _)
SeqsUpTo(S, n) ==
    IF n = 0 THEN {<<>>}
    ELSE LET shorter == SeqsUpTo(S, n - 1)
         IN shorter \cup {Append(s, x) : s \in {t \in shorter : Len(t) = n - 1}, x \in S}

Span(start, end, capture) ==
    [start |-> start, end |-> end, capture |-> capture,
     pattern_index |-> PatternOf(capture)]

(* every span with 0 <= start <= end <= limit *)
SpansWithin(limit) ==
    {Span(s, e, c) : s \in 0..limit, e \in 0..limit, c \in Captures} \ 
    {sp \in {Span(s, e, c) : s \in 0..limit, e \in 0..limit, c \in Captures} :
        sp.start > sp.end}

(* the source texts: the prefixes of two texts that alternate a plain and  *)
(* an escaped character                                                     *)
SourceText(first, n) ==
    [i \in 1..n |-> IF (i + first) % 2 = 0 THEN "<" ELSE "a"]

Sources == {SourceText(first, n) : first \in 0..1, n \in 0..MaxLen}

----------------------------------------------------------------------------
(* The rendering calls *)

RenderInit ==
    /\ source \in Sources
    /\ spans \in SeqsUpTo(SpansWithin(Len(source) + 1), MaxSpans)
    /\ rpc = "input"
    /\ deduped = EmptyMap
    /\ coalesced = <<>>
    /\ recoalesced = <<>>
    /\ html = <<>>
    /\ htmlStack = <<>>
    /\ ansiDeduped = EmptyMap
    /\ ansi = <<>>
    /\ RuntimeIdle

(* spans_to_html: the early return of line 120, or sort, deduplicate, take  *)
(* the values of the HashMap in the order it yields them, and render.       *)
HtmlCall ==
    /\ rpc = "input"
    /\ IF Len(spans) = 0
       THEN /\ html' = html_escape(source)
            /\ UNCHANGED <<deduped, coalesced, htmlStack>>
       ELSE LET m == DedupMap("html", spans)
            IN \E values \in ValueOrders(m) :
                  LET st == HtmlRender(source, values)
                  IN /\ deduped' = m
                     /\ html' = st.out
                     /\ htmlStack' = st.stack
                     /\ coalesced' = normalize_and_coalesce(values)
    /\ rpc' = "html_done"
    /\ UNCHANGED <<source, spans, recoalesced, ansiDeduped, ansi, svars>>

(* spans_to_ansi: the same on the ANSI side *)
AnsiCall ==
    /\ rpc = "html_done"
    /\ IF Len(spans) = 0
       THEN /\ ansi' = RawText(source)
            /\ UNCHANGED ansiDeduped
       ELSE LET m == DedupMap("ansi", spans)
            IN \E values \in ValueOrders(m) :
                  /\ ansiDeduped' = m
                  /\ ansi' = AnsiRender(source, values).out
    /\ rpc' = "done"
    /\ UNCHANGED <<source, spans, deduped, coalesced, recoalesced, html, htmlStack, svars>>

RenderNext == HtmlCall \/ AnsiCall

RenderSpec == RenderInit /\ [][RenderNext]_vars

----------------------------------------------------------------------------
(* normalize_and_coalesce on its own *)

CoalesceInit ==
    /\ source = <<>>
    /\ spans \in SeqsUpTo(SpansWithin(MaxPos), MaxCoalesceSpans)
    /\ rpc = "input"
    /\ deduped = EmptyMap
    /\ coalesced = <<>>
    /\ recoalesced = <<>>
    /\ html = <<>>
    /\ htmlStack = <<>>
    /\ ansiDeduped = EmptyMap
    /\ ansi = <<>>
    /\ RuntimeIdle

Coalesce ==
    /\ rpc = "input"
    /\ coalesced' = normalize_and_coalesce(spans)
    /\ rpc' = "coalesced"
    /\ UNCHANGED <<source, spans, deduped, recoalesced, html, htmlStack, ansiDeduped, ansi,
                   svars>>

(* the output fed back: lines 70-72 and 86-108 with every tag kept *)
Recoalesce ==
    /\ rpc = "coalesced"
    /\ recoalesced' = IF Len(coalesced) = 0 THEN <<>> ELSE SortAndCoalesce(coalesced)
    /\ rpc' = "recoalesced"
    /\ UNCHANGED <<source, spans, deduped, coalesced, html, htmlStack, ansiDeduped, ansi,
                   svars>>

CoalesceNext == Coalesce \/ Recoalesce

CoalesceSpec == CoalesceInit /\ [][CoalesceNext]_vars

----------------------------------------------------------------------------
(* The rendering calls on spans of one slot: the captures of the example of *)
(* the module documentation, which both map to the keyword slot.            *)

SlotCaptures == {"keyword.function", "keyword"}

(* every span of these captures with 0 <= start < end <= limit *)
SlotSpans(limit) ==
    {sp \in {Span(s, e, c) : s \in 0..limit, e \in 0..limit, c \in SlotCaptures} :
        sp.start < sp.end}

SlotInit ==
    /\ source \in Sources
    /\ spans \in SeqsUpTo(SlotSpans(Len(source)), MaxSpans)
    /\ rpc = "input"
    /\ deduped = EmptyMap
    /\ coalesced = <<>>
    /\ recoalesced = <<>>
    /\ html = <<>>
    /\ htmlStack = <<>>
    /\ ansiDeduped = EmptyMap
    /\ ansi = <<>>
    /\ RuntimeIdle

SlotSpec == SlotInit /\ [][RenderNext]_vars

----------------------------------------------------------------------------
(* spans_to_ansi on its own, on up to MaxAnsiSpans spans of two styled      *)
(* captures over a source of MaxLen + 1 characters                          *)

MaxAnsiSpans == 3

AnsiCaptures == {"keyword", "function"}

AnsiSources == {SourceText(first, MaxLen + 1) : first \in 0..1}

(* every span of these captures with 0 <= start <= end <= limit *)
AnsiInputSpans(limit) ==
    {sp \in {Span(s, e, c) : s \in 0..limit, e \in 0..limit, c \in AnsiCaptures} :
        sp.start <= sp.end}

AnsiInit ==
    /\ source \in AnsiSources
    /\ spans \in SeqsUpTo(AnsiInputSpans(Len(source)), MaxAnsiSpans)
    /\ rpc = "input"
    /\ deduped = EmptyMap
    /\ coalesced = <<>>
    /\ recoalesced = <<>>
    /\ html = <<>>
    /\ htmlStack = <<>>
    /\ ansiDeduped = EmptyMap
    /\ ansi = <<>>
    /\ RuntimeIdle

(* spans_to_ansi called on the input, with no call of spans_to_html before *)
AnsiAlone ==
    /\ rpc = "input"
    /\ IF Len(spans) = 0
       THEN /\ ansi' = RawText(source)
            /\ UNCHANGED ansiDeduped
       ELSE LET m == DedupMap("ansi", spans)
            IN \E values \in ValueOrders(m) :
                  /\ ansiDeduped' = m
                  /\ ansi' = AnsiRender(source, values).out
    /\ rpc' = "ansi_done"
    /\ UNCHANGED <<source, spans, deduped, coalesced, recoalesced, html, htmlStack, svars>>

AnsiSpec == AnsiInit /\ [][AnsiAlone]_vars

----------------------------------------------------------------------------
(* Properties of the rendering engine *)

html_unescape_char(c) ==
    CASE c = "&lt;" -> "<"
      [] c = "&gt;" -> ">"
      [] c = "&amp;" -> "&"
      [] c = "&quot;" -> "\""
      [] c = "&#39;" -> "'"
      [] OTHER -> c

(* the output with every token that is not text removed *)
TextOf(out) ==
    LET texts == SelectSeq(out, LAMBDA t : t.kind = "text")
    IN [i \in 1..Len(texts) |-> texts[i].val]

Unescaped(text) == [i \in 1..Len(text) |-> html_unescape_char(text[i])]

HtmlReturned == rpc \in {"html_done", "done"}

RangeOf(span) == <<span.start, span.end>>

SameRange(a, b) == a.start = b.start /\ a.end = b.end

(* C1: the HTML output with the open/close tokens removed and the entities *)
(* unescaped is the source, and the ANSI output with the escape sequences  *)
(* removed is the source.                                                  *)
C1_RoundTrip ==
    /\ HtmlReturned => Unescaped(TextOf(html)) = source
    /\ rpc = "done" => TextOf(ansi) = source

C1_Witness ==
    /\ rpc = "done"
    /\ Len(spans) = 2
    /\ spans[1].end > Len(source)
    /\ spans[2].start < spans[1].end /\ spans[1].start < spans[2].end
    /\ spans[2].start = spans[2].end \/ spans[1].start < spans[2].start
    /\ \E i \in 1..Len(html) : html[i].kind = "open"
    /\ \E i \in 1..Len(source) : source[i] = "<"

(* C2: after deduplication one span is kept per (start, end) of the input, *)
(* it is one of the input spans of that range, and it is styled whenever   *)
(* some input span of that range is styled; on the HTML and the ANSI side. *)
DedupKeepsStyled(backend, m) ==
    /\ DOMAIN m = {RangeOf(spans[i]) : i \in 1..Len(spans)}
    /\ \A k \in DOMAIN m :
          /\ RangeOf(m[k]) = k
          /\ \E i \in 1..Len(spans) : spans[i] = m[k]
    /\ \A values \in ValueOrders(m) :
          \A i, j \in 1..Len(values) : SameRange(values[i], values[j]) => i = j
    /\ \A i \in 1..Len(spans) :
          HasStyling(backend, spans[i]) => HasStyling(backend, m[RangeOf(spans[i])])

C2_DedupStyled ==
    /\ HtmlReturned /\ Len(spans) > 0 => DedupKeepsStyled("html", deduped)
    /\ rpc = "done" /\ Len(spans) > 0 => DedupKeepsStyled("ansi", ansiDeduped)

C2_Witness ==
    /\ rpc = "done"
    /\ Len(spans) = 2
    /\ SameRange(spans[1], spans[2])
    /\ HasStyling("html", spans[1])
    /\ ~HasStyling("html", spans[2])
    /\ deduped[RangeOf(spans[1])] = spans[1]

(* C3: of two styled input spans of the same range, the one with the       *)
(* higher pattern_index is the one kept by the deduplication of            *)
(* spans_to_html, in whatever order they come.                             *)
C3_HigherPatternWins ==
    HtmlReturned =>
        \A i, j \in 1..Len(spans) :
            /\ SameRange(spans[i], spans[j])
            /\ HasStyling("html", spans[i])
            /\ HasStyling("html", spans[j])
            /\ spans[i].pattern_index > spans[j].pattern_index
            => deduped[RangeOf(spans[i])].pattern_index >= spans[i].pattern_index

CoalesceReturned == rpc \in {"coalesced", "recoalesced"}

(* C4 as stated: any two output spans of the same tag are strictly apart. *)
C4_Exhaustive ==
    CoalesceReturned =>
        \A i, j \in 1..Len(coalesced) :
            i < j /\ coalesced[i].tag = coalesced[j].tag
            => coalesced[i].end < coalesced[j].start

(* C4: two output spans of the same tag with no output span of another tag *)
(* between them are strictly apart: the earlier ends before the later      *)
(* starts.                                                                 *)
C4_ExhaustiveWithinRun ==
    CoalesceReturned =>
        \A i, j \in 1..Len(coalesced) :
            /\ i < j
            /\ \A k \in i..j : coalesced[k].tag = coalesced[i].tag
            => coalesced[i].end < coalesced[j].start

C4_Witness ==
    /\ rpc = "coalesced"
    /\ Len(spans) = 3
    /\ Len(coalesced) = 2
    /\ coalesced[1].tag = coalesced[2].tag
    /\ \A i \in 1..3 : tag_for_capture(spans[i].capture) # NoTag

(* C5: the output is in non-decreasing (start, end) order, consecutive      *)
(* entries differ in tag or are strictly apart, and two same-tag spans      *)
(* that are consecutive in sorted order and touch come out as one span      *)
(* that covers both.                                                        *)
SortedInput ==
    StableSort("start_end",
        SelectSeq([i \in 1..Len(spans) |-> Normalized(spans[i])],
                  LAMBDA s : s.tag # NoTag))

Covers(outer, inner) ==
    /\ outer.tag = inner.tag
    /\ outer.start <= inner.start
    /\ inner.end <= outer.end

C5_OrderedAndMerged ==
    CoalesceReturned =>
        /\ \A i \in 1..Len(coalesced) - 1 :
              /\ ~LessStartEnd(coalesced[i + 1], coalesced[i])
              /\ \/ coalesced[i].tag # coalesced[i + 1].tag
                 \/ coalesced[i].end < coalesced[i + 1].start
        /\ \A i \in 1..Len(SortedInput) - 1 :
              /\ SortedInput[i].tag = SortedInput[i + 1].tag
              /\ SortedInput[i + 1].start <= SortedInput[i].end
              => \E k \in 1..Len(coalesced) :
                    /\ Covers(coalesced[k], SortedInput[i])
                    /\ Covers(coalesced[k], SortedInput[i + 1])

C5_Witness ==
    /\ rpc = "coalesced"
    /\ Len(spans) = 3
    /\ spans[1].start > spans[2].start
    /\ spans[1].capture = spans[2].capture
    /\ spans[1].start = spans[2].end
    /\ spans[2].start < spans[2].end
    /\ Len(coalesced) = 2
    /\ coalesced[1].tag # coalesced[2].tag

(* C6: normalize_and_coalesce applied to its own output returns it. *)
C6_Idempotent == rpc = "recoalesced" => recoalesced = coalesced

C6_Witness ==
    /\ rpc = "recoalesced"
    /\ Len(spans) = 3
    /\ Len(coalesced) = 2
    /\ recoalesced = coalesced
    /\ \A i \in 1..3 : tag_for_capture(spans[i].capture) # NoTag

(* C7: in the HTML output every open token is followed by the close token *)
(* of the same tag, no close token comes without an open one before it,    *)
(* and nothing is left open at the end.                                    *)
RECURSIVE Balanced(_, _, _)
Balanced(out, i, open) ==
    IF i > Len(out) THEN Len(open) = 0
    ELSE CASE out[i].kind = "open" -> Balanced(out, i + 1, Append(open, out[i].val))
           [] out[i].kind = "close" ->
                /\ Len(open) > 0
                /\ open[Len(open)] = out[i].val
                /\ Balanced(out, i + 1, SubSeq(open, 1, Len(open) - 1))
           [] OTHER -> Balanced(out, i + 1, open)

C7_Balanced == HtmlReturned => Balanced(html, 1, <<>>)

C7_Witness ==
    /\ rpc = "html_done"
    /\ Cardinality({i \in 1..Len(html) : html[i].kind = "open"}) >= 2
    /\ \E i \in 1..Len(html) - 1 : html[i].kind = "text" /\ html[i + 1].kind = "text"

(* C8: with no span, or with no span whose capture is styled, the HTML     *)
(* output is html_escape(source) and the ANSI output is the source.        *)
NoStyledSpan ==
    \A i \in 1..Len(spans) :
        ~HasStyling("html", spans[i]) /\ ~HasStyling("ansi", spans[i])

C8_Passthrough ==
    NoStyledSpan =>
        /\ HtmlReturned => html = html_escape(source)
        /\ rpc = "done" => ansi = RawText(source)

C8_Witness ==
    /\ rpc = "done"
    /\ Len(spans) = 2
    /\ NoStyledSpan
    /\ spans[1].start < spans[1].end
    /\ spans[1].end <= Len(source)
    /\ \E i \in 1..Len(source) : source[i] = "<"
    /\ html = html_escape(source)

----------------------------------------------------------------------------
(* Properties of the session runtime *)

ParseReturned == ret.op = "parse" /\ ret.kind \in {"ok", "err"}

(* C9: a parse of a live session that has text, called after cancel with   *)
(* no set_text or apply_edit in between, returns Ok with no span and no    *)
(* injection, and no error.                                                *)
C9_CancelledParseIsEmpty ==
    /\ ParseReturned
    /\ ret.id \in requested
    /\ sessions[ret.id].text # EmptyText
    => ret = Ok(ret.id, <<>>, <<>>)

C9_Witness ==
    /\ ParseReturned
    /\ ret.id \in requested
    /\ sessions[ret.id].tree = "short"
    /\ ret = Ok(ret.id, <<>>, <<>>)

(* C10: while parse(h) is iterating matches, cancel(h) can be called and   *)
(* take effect.                                                            *)
C10_CancelDuringParse ==
    ppc = "iterating" => ENABLED cancel(parse_id)

(* C11: create_session returns strictly increasing handles, and the handle  *)
(* it returns is not the handle of a live session (no session of the map    *)
(* is replaced).                                                            *)
C11_HandlesNeverReused ==
    [][next_session_id' # next_session_id =>
          /\ next_session_id \notin DOMAIN sessions
          /\ next_session_id' > next_session_id]_vars

(* C12: a session that has a tree keeps having one under every operation    *)
(* on the runtime until it is freed (steps of create_session apart).        *)
C12_TreeStays ==
    [][next_session_id' = next_session_id =>
          \A h \in DOMAIN sessions \cap DOMAIN sessions' :
              sessions[h].tree # NoTree => sessions'[h].tree # NoTree]_vars

(* C13: set_text, apply_edit, cancel and parse on a handle that is not live *)
(* report an invalid handle, and apply_edit and parse on a session that     *)
(* never received text report that no text is set.                          *)
C13_ViolationsReported ==
    [][/\ \A h \in Handles \ DOMAIN sessions :
             (\/ \E t \in Texts : set_text(h, t) \/ \E e \in Edits(Texts) : apply_edit(h, t, e)
              \/ cancel(h)
              \/ parse_enter(h))
             => ret'.kind = "err" /\ ret'.error = "invalid session id"
       /\ \A h \in DOMAIN sessions :
             /\ sessions[h].text = EmptyText
             /\ \/ \E t \in Texts, e \in Edits(Texts) : apply_edit(h, t, e)
                \/ parse_enter(h)
             => ret'.kind = "err" /\ ret'.error = "no text set for session"]_vars

(* a call parse(h) that returns at once: the runtime is idle before and     *)
(* after, and the result of a parse on h is there after the step            *)
ParseCalled(h) ==
    /\ ppc = "idle"
    /\ ppc' = "idle"
    /\ ret'.op = "parse"
    /\ ret'.id = h

(* no set_text and no apply_edit on session h since it was created: the     *)
(* text is still the one of Session::new                                    *)
NoTextGiven(h) == h \in DOMAIN sessions /\ sessions[h].text = EmptyText

(* C14 as stated: parse on a live session that never received text returns  *)
(* 'no text set for session' and leaves the session as it is.               *)
C14_NoTextError ==
    [][\A h \in Handles :
          NoTextGiven(h) /\ ParseCalled(h)
          => ret' = Err(h, "no text set for session") /\ sessions' = sessions]_vars

(* C14: the same for a session whose cancelled flag is not set; with the    *)
(* flag set the result is the empty one of C9.                              *)
C14_NoTextErrorUnlessCancelled ==
    [][\A h \in Handles :
          NoTextGiven(h) /\ ParseCalled(h)
          => /\ sessions' = sessions
             /\ ret' = IF sessions[h].cancelled
                        THEN Ok(h, <<>>, <<>>)
                        ELSE Err(h, "no text set for session")]_vars

C14_Witness ==
    /\ ret = Err(ret.id, "no text set for session")
    /\ NoTextGiven(ret.id)
    /\ \E h \in DOMAIN sessions : sessions[h].tree # NoTree

(* the spans and the events of the event loop of the spans_to_html call     *)
(* that returned: lines 157-171 applied to the coalesced spans              *)
HtmlSorted == StableSort("start_asc_end_desc", coalesced)

HtmlEvents == BuildEvents(HtmlSorted)

(* C15: an event of spans_to_html whose position is beyond the length of    *)
(* the source changes neither the output nor the stack of open spans.       *)
C15_PastEndIsNoOp ==
    HtmlReturned =>
        \A k \in 1..Len(HtmlEvents) :
            HtmlEvents[k].pos > Len(source) =>
                LET before == HtmlAfter(source, HtmlSorted, HtmlEvents, k - 1)
                    after == HtmlAfter(source, HtmlSorted, HtmlEvents, k)
                IN after.out = before.out /\ after.stack = before.stack

(* C16: the spans of a successful result of parse are in non-decreasing     *)
(* (start, end) order.                                                      *)
C16_ResultSorted ==
    ret.op = "parse" /\ ret.kind = "ok" =>
        \A i \in 1..Len(ret.spans) - 1 : ~LessStartEnd(ret.spans[i + 1], ret.spans[i])

(* the matches of the text came with a later span before an earlier one *)
C16_Witness ==
    /\ ret.op = "parse" /\ ret.kind = "ok"
    /\ Len(ret.spans) >= 2
    /\ LET yielded == SpansOf(Matches(config.query, sessions[ret.id].tree)[1])
       IN Len(yielded) > 0 /\ yielded[1] = ret.spans[Len(ret.spans)]

Opens(out) == Cardinality({i \in 1..Len(out) : out[i].kind = "open"})

Apart(a, b) == a.end < b.start \/ b.end < a.start

TextAt(out, n) ==
    CHOOSE i \in 1..Len(out) :
        /\ out[i].kind = "text"
        /\ Cardinality({j \in 1..i : out[j].kind = "text"}) = n

(* the tag that wraps the token at place `at` of out: the one of the open    *)
(* token that is the last token before it other than text, NoTag when that  *)
(* token is a close token or there is none                                  *)
WrapOf(out, at) ==
    LET marks == {i \in 1..at - 1 : out[i].kind # "text"}
    IN IF marks = {} THEN NoTag
       ELSE LET last == CHOOSE i \in marks : \A j \in marks : j <= i
            IN IF out[last].kind = "open" THEN out[last].val ELSE NoTag

(* the spans of sp whose range holds the p-th character (byte p - 1) *)
Containing(sp, p) == {i \in 1..Len(sp) : sp[i].start < p /\ p <= sp[i].end}

(* among them, those with the greatest start and then the smallest end *)
Innermost(sp, p) ==
    {i \in Containing(sp, p) :
        \A j \in Containing(sp, p) :
            \/ sp[j].start < sp[i].start
            \/ sp[j].start = sp[i].start /\ sp[j].end >= sp[i].end}

WithinSource(sp) ==
    \A i \in 1..Len(sp) : sp[i].start < sp[i].end /\ sp[i].end <= Len(source)

(* C18: with retained spans of start < end <= len(source), every character  *)
(* of the HTML output is wrapped by the tag of the innermost retained span  *)
(* that holds it (greatest start, then smallest end), and is unwrapped when *)
(* no retained span holds it.                                               *)
C18_WrappedByInnermost ==
    HtmlReturned /\ WithinSource(coalesced) =>
        \A p \in 1..Len(source) :
            LET wrap == WrapOf(html, TextAt(html, p))
            IN IF Containing(coalesced, p) = {}
               THEN wrap = NoTag
               ELSE \E i \in Innermost(coalesced, p) : coalesced[i].tag = wrap

C18_Witness ==
    /\ HtmlReturned
    /\ WithinSource(coalesced)
    /\ Len(coalesced) = 2
    /\ coalesced[1].tag # coalesced[2].tag
    /\ \E p \in 1..Len(source) : Cardinality(Containing(coalesced, p)) = 2
    /\ \E p \in 1..Len(source) : Cardinality(Containing(coalesced, p)) = 1
    /\ \E p \in 1..Len(source) : Containing(coalesced, p) = {}

(* what spans_to_html may return for an input: one output per order in      *)
(* which the HashMap yields its values                                      *)
HtmlOutputs(src, input) ==
    IF Len(input) = 0 THEN {html_escape(src)}
    ELSE {HtmlRender(src, values).out : values \in ValueOrders(DedupMap("html", input))}

NonEmptySpans == SelectSeq(spans, LAMBDA sp : sp.start < sp.end)

(* C19: spans_to_html returns what it returns for the input without its     *)
(* zero-width spans, and the stack of open spans is empty after the last    *)
(* event.                                                                   *)
C19_ZeroWidthWrapsNothing ==
    HtmlReturned =>
        /\ html \in HtmlOutputs(source, NonEmptySpans)
        /\ htmlStack = <<>>

(* the styled spans of the spans_to_ansi call that returned (lines 287-324; *)
(* the ranges of the deduplicated spans differ, so the sort fixes the order) *)
AnsiSorted == AnsiSpans(CHOOSE values \in ValueOrders(ansiDeduped) : TRUE)

(* the argument of the theme.ansi_style in effect at place `at` of out: the *)
(* last token before it other than text, when that is a style token         *)
StyleAt(out, at) ==
    LET marks == {i \in 1..at - 1 : out[i].kind # "text"}
    IN IF marks = {} THEN NoIndex
       ELSE LET last == CHOOSE i \in marks : \A j \in marks : j <= i
            IN IF out[last].kind = "style" THEN out[last].val ELSE NoIndex

(* C20: every styled character of the ANSI output is styled by              *)
(* theme.ansi_style(i) with i the highlight index of the innermost styled   *)
(* span that holds it; stated for styled spans of start < end <=            *)
(* len(source), where the stack of open spans holds the spans that cover    *)
(* the text.                                                                *)
C20_StyleIsHighlightIndex ==
    rpc = "done" /\ WithinSource(AnsiSorted) =>
        \A p \in 1..Len(source) :
            LET style == StyleAt(ansi, TextAt(ansi, p))
            IN style # NoIndex =>
                  \E i \in Innermost(AnsiSorted, p) : AnsiSorted[i].index = style

(* the style index that corresponds to a tag: tags and style indices are    *)
(* both one per slot                                                        *)
IndexOfTag(tag) ==
    CASE tag = "k" -> slot_to_highlight_index("Keyword")
      [] tag = "f" -> slot_to_highlight_index("Function")
      [] tag = "c" -> slot_to_highlight_index("Comment")
      [] OTHER -> NoIndex

(* the style index of the span that spans_to_ansi attributes the p-th       *)
(* character to: the span on top of its stack when the character is emitted *)
AnsiWinner(p) ==
    LET d == StyleAt(ansi, TextAt(ansi, p))
    IN IF d = NoIndex THEN NoIndex ELSE AnsiSorted[d + 1].index

(* C21: spans_to_ansi attributes every character to the span that           *)
(* spans_to_html attributes it to (the same slot wins), for retained spans  *)
(* of start < end <= len(source).                                           *)
C21_AnsiMirrorsHtml ==
    rpc = "done" /\ WithinSource(coalesced) /\ WithinSource(AnsiSorted) =>
        \A p \in 1..Len(source) :
            AnsiWinner(p) = IndexOfTag(WrapOf(html, TextAt(html, p)))

AnsiReturned == rpc \in {"done", "ansi_done"}

(* the escape sequences between places a and b of out *)
EscapesBetween(out, a, b) == {i \in a + 1..b - 1 : out[i].kind # "text"}

(* the style indices of the innermost styled spans that hold the p-th       *)
(* character                                                                *)
InnermostStyles(p) == {AnsiSorted[i].index : i \in Innermost(AnsiSorted, p)}

(* C22: two consecutive characters whose innermost styled spans have the    *)
(* same style index, which is the style each of them is emitted under, come *)
(* with no escape sequence between them, and no style is active at the end  *)
(* of the output; for styled spans of start < end <= len(source).           *)
C22_EscapeOnlyOnChange ==
    AnsiReturned /\ WithinSource(AnsiSorted) =>
        /\ \A p \in 1..Len(source) - 1 :
              /\ AnsiWinner(p) = AnsiWinner(p + 1)
              /\ AnsiWinner(p) \in InnermostStyles(p) \cap InnermostStyles(p + 1)
              => EscapesBetween(ansi, TextAt(ansi, p), TextAt(ansi, p + 1)) = {}
        /\ StyleAt(ansi, Len(ansi) + 1) = NoIndex

(* C23: the cancelled flag of a session goes from unset to set only in a    *)
(* step of cancel on its handle and from set to unset only in a step of     *)
(* set_text or apply_edit on its handle; no step of parse changes it; a     *)
(* parse called after cancel with no set_text or apply_edit since returns   *)
(* the empty result at once, and a parse called with no cancel pending on   *)
(* a session that has a tree starts the iteration of the matches.  A        *)
(* session is one Session value from the create_session that inserted it    *)
(* to its removal (steps of create_session apart).                          *)
C23_FlagSetAndCleared ==
    [][next_session_id' = next_session_id =>
          \A h \in DOMAIN sessions \cap DOMAIN sessions' :
              /\ ~sessions[h].cancelled /\ sessions'[h].cancelled => cancel(h)
              /\ sessions[h].cancelled /\ ~sessions'[h].cancelled
                 => \E t \in Texts :
                        set_text(h, t) \/ \E e \in Edits(Texts) : apply_edit(h, t, e)
              /\ ret'.op = "parse" => sessions'[h].cancelled = sessions[h].cancelled
              /\ parse_enter(h) /\ h \in requested
                 => ret' = Ok(h, <<>>, <<>>) /\ ppc' = "idle"
              /\ parse_enter(h) /\ h \notin requested /\ sessions[h].tree # NoTree
                 => ret'.kind = "running" /\ ppc' = "iterating"]_vars

C23_Witness ==
    /\ ParseReturned
    /\ ret.id \in requested
    /\ sessions[ret.id].cancelled
    /\ sessions[ret.id].tree = "brief"
    /\ ret = Ok(ret.id, <<>>, <<>>)
    /\ \E h \in DOMAIN sessions \ requested : sessions[h].tree # NoTree

(* the iteration of the match loop that comes next loads the flag (the      *)
(* condition of line 269 after the increment of line 268)                   *)
ReadsFlag == ppc = "iterating" /\ check_count + 1 >= CANCELLATION_CHECK_INTERVAL

(* the number of matches taken from the iterator up to the next load of     *)
(* the flag, the match at which it is loaded included                       *)
MatchesUntilRead == CANCELLATION_CHECK_INTERVAL - check_count

AllSpans(tree) ==
    LET ms == Matches(config.query, tree)
        upto[k \in 0..Len(ms)] ==
            IF k = 0 THEN <<>>
            ELSE upto[k - 1] \o (IF ms[k].pattern_index >= config.highlights_pattern_index
                                  THEN SpansOf(ms[k]) ELSE <<>>)
    IN upto[Len(ms)]

AllInjections(tree, text) ==
    LET ms == Matches(config.query, tree)
        bytes == Bytes(text)
        upto[k \in 0..Len(ms)] ==
            IF k = 0 THEN <<>>
            ELSE upto[k - 1] \o (IF ms[k].pattern_index < config.locals_pattern_index
                                  THEN InjectionsOf(bytes, ms[k]) ELSE <<>>)
    IN upto[Len(ms)]

(* C25: a successful return of parse holds either no span and no injection  *)
(* or the sorted spans and the injections of all matches of the tree of     *)
(* the session; nothing in between is ever returned.                        *)
C25_AllOrNothing ==
    ParseReturned /\ ret.kind = "ok" =>
        \/ ret.spans = <<>> /\ ret.injections = <<>>
        \/ /\ ret.id \in DOMAIN sessions
           /\ ret.spans = StableSort("start_end", AllSpans(sessions[ret.id].tree))
           /\ ret.injections = AllInjections(sessions[ret.id].tree, sessions[ret.id].text)

C25_Witness ==
    /\ ParseReturned
    /\ ret.kind = "ok"
    /\ Len(ret.spans) = 2
    /\ Len(ret.injections) = 2
    /\ Len(Matches(config.query, sessions[ret.id].tree)) > 2

(* the names of the patterns written in the query texts of one kind *)
PatternsOf(texts) ==
    UNION {{text.patterns[i].name : i \in 1..Len(text.patterns)} : text \in texts}

(* the section a pattern was written in *)
Section(pattern) ==
    IF pattern \in PatternsOf(InjectionsTexts) THEN "injections"
    ELSE IF pattern \in PatternsOf(LocalsTexts) THEN "locals"
    ELSE "highlights"

(* the group parse puts a match of a pattern index in (lines 278, 322) *)
Group(pattern_index) ==
    IF pattern_index < config.locals_pattern_index THEN "injections"
    ELSE IF pattern_index < config.highlights_pattern_index THEN "locals"
    ELSE "highlights"

(* what the patterns of one section of the query find in a tree *)
FoundBy(section, tree) ==
    SelectSeq(Finds(tree),
              LAMBDA f : /\ Section(f.pattern) = section
                         /\ \E i \in 1..Len(config.query.patterns) :
                                config.query.patterns[i] = f.pattern)

(* the spans of the nodes captured by the highlights section under names    *)
(* that are not skipped                                                     *)
HighlightNodes(tree) ==
    LET found == FoundBy("highlights", tree)
        kept(f) == SelectSeq(f.nodes, LAMBDA node : ~Skipped(node.name))
    IN Flatten([k \in 1..Len(found) |->
                   [j \in 1..Len(kept(found[k])) |->
                       [start |-> kept(found[k])[j].start, end |-> kept(found[k])[j].end,
                        capture |-> kept(found[k])[j].name]]])

(* C26: the two boundaries are ordered and within the pattern count, the    *)
(* group of every pattern index is the section its pattern was written in,  *)
(* the spans parse returns are exactly the nodes captured by the            *)
(* highlights section under names that do not start with '_',               *)
(* "injection." or "local.", and every injection it returns has the         *)
(* content node of a match of the injections section.                       *)
C26_MatchesGrouped ==
    /\ config.locals_pattern_index <= config.highlights_pattern_index
    /\ config.highlights_pattern_index <= Len(config.query.patterns)
    /\ \A i \in 1..Len(config.query.patterns) :
          Group(i - 1) = Section(config.query.patterns[i])
    /\ ParseReturned /\ ret.kind = "ok" /\ ret.id \notin requested =>
          LET tree == sessions[ret.id].tree
              injecting == FoundBy("injections", tree)
          IN /\ ret.spans = StableSort("start_end", HighlightNodes(tree))
             /\ Len(ret.injections) <= Len(injecting)
             /\ \A k \in 1..Len(ret.injections) :
                   \E i \in 1..Len(injecting) :
                       \E j \in 1..Len(injecting[i].nodes) :
                           /\ injecting[i].nodes[j].name = "injection.content"
                           /\ injecting[i].nodes[j].start = ret.injections[k].start
                           /\ injecting[i].nodes[j].end = ret.injections[k].end

C26_Witness ==
    /\ config.locals_pattern_index = 2
    /\ config.highlights_pattern_index = 3
    /\ Len(config.query.patterns) = 6
    /\ ParseReturned /\ ret.kind = "ok" /\ ret.id \notin requested
    /\ Len(ret.spans) = 3
    /\ Len(ret.injections) = 2
    /\ Len(Finds(sessions[ret.id].tree)) = 6

(* the injections of a tree of a text by the rule of C27: per match of a    *)
(* pattern of the query written in the injections section, the language is  *)
(* the text of the captured injection.language node when there is one and   *)
(* the `#set! injection.language` property of the pattern otherwise, and    *)
(* an injection is emitted when there are both a language and an            *)
(* injection.content node                                                   *)
RuleInjections(query, tree, text) ==
    LET found == SelectSeq(Finds(tree),
                           LAMBDA f : /\ Section(f.pattern) = "injections"
                                      /\ \E i \in 1..Len(query.patterns) :
                                             query.patterns[i] = f.pattern)
        named(f, name) == SelectSeq(f.nodes, LAMBDA node : node.name = name)
        props(f) == LanguageProperties(query, PatternIndex(query, f.pattern))
        language(f) ==
            IF named(f, "injection.language") # <<>>
            THEN Some(utf8_text(Bytes(text), named(f, "injection.language")[1]))
            ELSE IF props(f) # <<>> THEN props(f)[1].value
            ELSE None
        rule(f) ==
            IF language(f) # None /\ named(f, "injection.content") # <<>>
            THEN <<Injection(named(f, "injection.content")[1], language(f)[1],
                             IncludeChildren(query, PatternIndex(query, f.pattern)))>>
            ELSE <<>>
    IN Flatten([k \in 1..Len(found) |-> rule(found[k])])

(* C27: the injections returned by PluginRuntime::parse and the injections  *)
(* returned by CompiledGrammar::parse for a text that was parsed are those  *)
(* of the rule: captured language first, property only without a captured   *)
(* language, nothing without both a language and a content node.            *)
C27_CapturedLanguageFirst ==
    [][/\ parse_return =>
             ret'.injections = RuleInjections(config.query, sessions[parse_id].tree,
                                              sessions[parse_id].text)
       /\ \A text \in Texts :
             CompiledGrammar_parse(text) /\ grammar.injections_query # None =>
                 ret'.injections \in
                     {<<>>, RuleInjections(grammar.injections_query[1], text, text)}]_vars

(* what parse returns for a session fresh from create_session and           *)
(* set_text(text), with the tree the parser gave it                         *)
FreshResult(h, text, tree) ==
    IF tree = NoTree THEN Err(h, "no text set for session")
    ELSE Ok(h, StableSort("start_end", AllSpans(text)), AllInjections(text, text))

OperationOn(h) ==
    \/ free_session(h)
    \/ \E t \in Texts : set_text(h, t) \/ \E e \in Edits(Texts) : apply_edit(h, t, e)
    \/ cancel(h)
    \/ parse_enter(h)
    \/ (parse_match \/ parse_return) /\ parse_id = h

(* C29: a step of set_text, apply_edit, cancel, parse or free_session on    *)
(* handle h leaves every other live session live and as it was, a step of   *)
(* create_session leaves every live session live and as it was, and no      *)
(* cancel(h) makes a parse of another handle return the empty result.       *)
C29_SessionsIndependent ==
    [][/\ \A h \in Handles :
             OperationOn(h) =>
                 \A k \in DOMAIN sessions \ {h} :
                     k \in DOMAIN sessions' /\ sessions'[k] = sessions[k]
       /\ next_session_id' # next_session_id =>
             \A k \in DOMAIN sessions :
                 k \in DOMAIN sessions' /\ sessions'[k] = sessions[k]
       /\ \A h \in DOMAIN sessions :
             parse_enter(h) /\ ~sessions[h].cancelled /\ sessions[h].tree # NoTree
             => ret'.kind = "running"]_vars

(* C30: spans_to_html returns one output for a source and a span list: the  *)
(* output is the same for every order in which the deduplication map can    *)
(* yield its values.                                                        *)
C30_HtmlDeterministic ==
    HtmlReturned => HtmlOutputs(source, spans) = {html}

(* the map held two spans that both reach the output, so that it could      *)
(* yield them in two orders                                                 *)
C30_Witness ==
    /\ HtmlReturned
    /\ Cardinality(DOMAIN deduped) = 2
    /\ Cardinality(ValueOrders(deduped)) = 2
    /\ Len(coalesced) = 2
    /\ Opens(html) = 2

====
